---- MODULE Spec2Model ----
(***************************************************************************)
(* A state-machine model of the vinted backend: the bearer-token gate,     *)
(* signup / login, and the offer routes (publish, update, delete, get by   *)
(* id) together with the two external stores they drive: the document     *)
(* store (User and Offer collections) and the Cloudinary image store.      *)
(*                                                                         *)
(* Strings are sequences of one-character strings.  A request field is a   *)
(* tagged record: [t |-> "undefined"], [t |-> "string", v |-> <<..>>],     *)
(* [t |-> "number", n |-> x] or [t |-> "array", a |-> <<..>>].  Prices are *)
(* kept in hundredths (PriceScale), so 100000.01 is 10000001.              *)
(*                                                                         *)
(* The offer router modelled is src/unnamed/part_000 (the one that serves  *)
(* GET /offers and uploads data URIs, as src/index.js and                  *)
(* src/routes/user.js do); src/unnamed/part_001 is an earlier variant of   *)
(* the same three write routes.                                            *)
(***************************************************************************)
EXTENDS Integers, Sequences, FiniteSets, TLC

VARIABLES
  users,        \* the User collection, in insertion order; _id is the index
  receipts,     \* what each signup's client holds: its password and the 201 body
  offers,       \* the Offer collection: _id -> document
  nextOfferId,  \* the next _id the document store assigns
  imageStore,   \* the public ids the image store holds
  signup,       \* the signup requests in flight, one per slot
  last          \* the last request answered and its response

vars == <<users, receipts, offers, nextOfferId, imageStore, signup, last>>

(***************************************************************************)
(* Bounds of the model.                                                    *)
(***************************************************************************)
MaxOffers == 1
MaxImages == 3
MaxPics == 2
MaxUsers == 2
MaxSignups == 2

(***************************************************************************)
(* Program constants.                                                      *)
(***************************************************************************)
TitleMax == 50
DescriptionMax == 500
PriceMax == 100000
PriceScale == 100

(***************************************************************************)
(* Request values.                                                         *)
(***************************************************************************)
Undefined == [t |-> "undefined"]
Str(s) == [t |-> "string", v |-> s]
Num(x) == [t |-> "number", n |-> x]
Arr(x) == [t |-> "array", a |-> x]

IsString(x) == x.t = "string"

Rep(c, n) == [i \in 1..n |-> c]

(***************************************************************************)
(* String.prototype.trim and toLowerCase, on sequences of characters.      *)
(***************************************************************************)
IsSpace(c) == c = " "

RECURSIVE TrimLeft(_)
TrimLeft(s) ==
  IF s # <<>> /\ IsSpace(Head(s)) THEN TrimLeft(Tail(s)) ELSE s

RECURSIVE TrimRight(_)
TrimRight(s) ==
  IF s # <<>> /\ IsSpace(s[Len(s)])
  THEN TrimRight(SubSeq(s, 1, Len(s) - 1))
  ELSE s

Trim(s) == TrimRight(TrimLeft(s))

LowerChar(c) ==
  CASE c = "A" -> "a"
    [] c = "B" -> "b"
    [] OTHER -> c

ToLowerCase(s) == [i \in 1..Len(s) |-> LowerChar(s[i])]

(***************************************************************************)
(* limitString: a non-string becomes "", a long string is cut to max.      *)
(***************************************************************************)
limitString(str, max) ==
  IF ~IsString(str) THEN <<>>
  ELSE IF Len(str.v) > max THEN SubSeq(str.v, 1, max) ELSE str.v

(***************************************************************************)
(* Number(value) for the values a request carries.  A number is a record   *)
(* [fin, v]: fin = FALSE is NaN.  A string is parsed as ECMAScript's       *)
(* StringToNumber does for the alphabet of digits, sign, point and blank:  *)
(* blanks are trimmed, the empty string is 0, then an optional sign, and   *)
(* digits with an optional fraction of at most two digits.                 *)
(***************************************************************************)
NaN == [fin |-> FALSE, v |-> 0]
Fin(n) == [fin |-> TRUE, v |-> n]

DigitChars == <<"0", "1", "2", "3", "4", "5", "6", "7", "8", "9">>
IsDigit(c) == \E i \in 1..10 : DigitChars[i] = c
DigitVal(c) == (CHOOSE i \in 1..10 : DigitChars[i] = c) - 1

AllDigits(s) == \A i \in 1..Len(s) : IsDigit(s[i])

RECURSIVE DigitsVal(_)
DigitsVal(s) ==
  IF s = <<>> THEN 0
  ELSE 10 * DigitsVal(SubSeq(s, 1, Len(s) - 1)) + DigitVal(s[Len(s)])

PointAt(s) ==
  IF \E i \in 1..Len(s) : s[i] = "."
  THEN CHOOSE i \in 1..Len(s) : s[i] = "." /\ \A j \in 1..(i - 1) : s[j] # "."
  ELSE 0

\* An unsigned decimal literal: digits, digits "." digits, "." digits.
UnsignedDecimal(s) ==
  LET p == PointAt(s)
      ip == IF p = 0 THEN s ELSE SubSeq(s, 1, p - 1)
      fp == IF p = 0 THEN <<>> ELSE SubSeq(s, p + 1, Len(s))
  IN IF ~AllDigits(ip) \/ ~AllDigits(fp) \/ (ip = <<>> /\ fp = <<>>)
        \/ Len(fp) > 2
     THEN NaN
     ELSE Fin(PriceScale * DigitsVal(ip)
              + (IF Len(fp) = 0 THEN 0
                 ELSE IF Len(fp) = 1 THEN 10 * DigitsVal(fp)
                 ELSE DigitsVal(fp)))

StringToNumber(s) ==
  LET t == Trim(s)
  IN IF t = <<>> THEN Fin(0)
     ELSE IF Head(t) = "-"
          THEN LET u == UnsignedDecimal(Tail(t))
               IN IF u.fin THEN Fin(0 - u.v) ELSE NaN
     ELSE IF Head(t) = "+" THEN UnsignedDecimal(Tail(t))
     ELSE UnsignedDecimal(t)

Number(value) ==
  CASE value.t = "undefined" -> NaN
    [] value.t = "number" -> Fin(value.n)
    [] value.t = "string" -> StringToNumber(value.v)
    [] OTHER -> NaN

toPrice(value) ==
  LET n == Number(value) IN IF n.fin THEN n ELSE NaN

(***************************************************************************)
(* Files, image references and the image store.  A file is what            *)
(* express-fileupload hands over: [name, mimetype, data]; name stands for  *)
(* the file name the image store works with.  The store is the set of      *)
(* public ids it holds.  With use_filename: true and unique_filename:      *)
(* false the store adds no random suffix: the public id is the folder and  *)
(* the file name, and a second upload of that name replaces the first.     *)
(***************************************************************************)
ALLOWED_MIME == {"image/jpeg", "image/png", "image/webp", "image/gif"}

Null == [null |-> TRUE]

OfferFolder(id) == [ns |-> "offers", of |-> id]
UsersFolder == [ns |-> "users", of |-> 0]

PublicId(folder, name) == [folder |-> folder, name |-> name]

convertToBase64(file) == [mimetype |-> file.mimetype, data |-> file.data]

FormatOf(mimetype) ==
  CASE mimetype = "image/jpeg" -> "jpg"
    [] mimetype = "image/png" -> "png"
    [] mimetype = "image/webp" -> "webp"
    [] mimetype = "image/gif" -> "gif"
    [] OTHER -> "raw"

\* cloudinary.uploader.upload(dataUri, {folder, use_filename, unique_filename})
CloudinaryUpload(dataUri, name, folder) ==
  [public_id |-> PublicId(folder, name),
   format |-> FormatOf(dataUri.mimetype),
   bytes |-> dataUri.data]

\* uploadOneToCloudinary: 415 for a mime type that is not allowed, 500 when
\* the store's call throws (fault), else the compact image document.
uploadOneToCloudinary(file, folder, fault) ==
  IF file.mimetype \notin ALLOWED_MIME THEN [status |-> 415, doc |-> Null]
  ELSE IF fault THEN [status |-> 500, doc |-> Null]
  ELSE [status |-> 200,
        doc |-> CloudinaryUpload(convertToBase64(file), file.name, folder)]

\* The sequential upload loop of publish and update: files are uploaded in
\* input order; the first failure ends the loop.  faultAt is the number of
\* the store call of this request that throws (0: none); base is the number
\* of store calls the request made before the loop.
RECURSIVE UploadLoop(_, _, _, _, _)
UploadLoop(files, folder, faultAt, base, done) ==
  IF Len(done) = Len(files) THEN [status |-> 200, docs |-> done]
  ELSE LET k == Len(done) + 1
           r == uploadOneToCloudinary(files[k], folder, faultAt = base + k)
       IN IF r.status # 200 THEN [status |-> r.status, docs |-> done]
          ELSE UploadLoop(files, folder, faultAt, base, Append(done, r.doc))

PublicIdsOf(docs) == {docs[i].public_id : i \in 1..Len(docs)}

(***************************************************************************)
(* The Offer schema: the trim setters and the validators that run on       *)
(* create and save.  A failed validation throws an error with no status.   *)
(***************************************************************************)
OfferSetters(doc) ==
  [doc EXCEPT !.product_name = Trim(@), !.product_description = Trim(@)]

OfferValid(doc) ==
  /\ doc.product_name # <<>>
  /\ Len(doc.product_name) >= 1
  /\ Len(doc.product_name) <= TitleMax
  /\ Len(doc.product_description) >= 1
  /\ Len(doc.product_description) <= DescriptionMax
  /\ doc.product_price.fin
  /\ doc.product_price.v >= 0
  /\ doc.product_price.v <= PriceMax * PriceScale

(***************************************************************************)
(* isAuthenticated.  A header is Undefined or a string over the atoms      *)
(* " ", "Bearer", "Basic", ... and token atoms; split(" ") cuts it at      *)
(* every blank.  The result is [status, user]: 200 with the index of the   *)
(* first user whose token is the presented one, 401, or 500 when split is  *)
(* called on a missing header.                                             *)
(***************************************************************************)
RECURSIVE Split(_, _)
Split(s, cur) ==
  IF s = <<>> THEN <<cur>>
  ELSE IF Head(s) = " " THEN <<cur>> \o Split(Tail(s), <<>>)
  ELSE Split(Tail(s), Append(cur, Head(s)))

FindUserByToken(us, token) ==
  IF \E i \in 1..Len(us) : us[i].token = token
  THEN CHOOSE i \in 1..Len(us) :
         us[i].token = token /\ \A j \in 1..(i - 1) : us[j].token # token
  ELSE 0

isAuthenticated(us, header) ==
  IF header.t = "undefined" THEN [status |-> 500, user |-> 0]
  ELSE LET parts == Split(header.v, <<>>)
           bearer == parts[1]
           token == IF Len(parts) >= 2 THEN parts[2] ELSE <<>>
       IN IF bearer # <<"Bearer">> \/ token = <<>>
          THEN [status |-> 401, user |-> 0]
          ELSE LET u == FindUserByToken(us, token)
               IN IF u = 0 THEN [status |-> 401, user |-> 0]
                  ELSE [status |-> 200, user |-> u]

(***************************************************************************)
(* Request parsing helpers of the offer router.                            *)
(***************************************************************************)
\* req.files is absent, one file under the key, or an array of files.
OneFile(f) == [t |-> "file", f |-> f]

normalizePictures(filesObj) ==
  CASE filesObj.t = "undefined" -> <<>>
    [] filesObj.t = "array" -> filesObj.a
    [] OTHER -> <<filesObj.f>>

\* JavaScript truthiness of a request value.
Truthy(x) ==
  CASE x.t = "undefined" -> FALSE
    [] x.t = "string" -> x.v # <<>>
    [] x.t = "number" -> x.n # 0
    [] OTHER -> TRUE

\* JSON.parse on a text given as its tokens: "[", "]", ",", a string
\* literal [k |-> "str", s |-> id], or a token no JSON text holds.
\* The result is [ok, val]: a syntax error, an array of the literals'
\* values, or the one string the text is.
Tok(k) == [k |-> k]
Lit(x) == [k |-> "str", s |-> x]

RECURSIVE ParseElements(_, _)
ParseElements(toks, acc) ==
  \* toks follows a value of the array: "]" ends it, "," needs a value.
  IF toks = <<>> THEN [ok |-> FALSE, val |-> Undefined]
  ELSE IF toks = <<Tok("]")>> THEN [ok |-> TRUE, val |-> Arr(acc)]
  ELSE IF Len(toks) >= 2 /\ toks[1] = Tok(",") /\ toks[2].k = "str"
       THEN ParseElements(SubSeq(toks, 3, Len(toks)), Append(acc, toks[2].s))
  ELSE [ok |-> FALSE, val |-> Undefined]

JSONParse(toks) ==
  IF toks = <<>> THEN [ok |-> FALSE, val |-> Undefined]
  ELSE IF Len(toks) = 1 /\ toks[1].k = "str"
       THEN [ok |-> TRUE, val |-> [t |-> "jsonstring", s |-> toks[1].s]]
  ELSE IF toks[1] # Tok("[") THEN [ok |-> FALSE, val |-> Undefined]
  ELSE IF toks = <<Tok("["), Tok("]")>> THEN [ok |-> TRUE, val |-> Arr(<<>>)]
  ELSE IF Len(toks) >= 2 /\ toks[2].k = "str"
       THEN ParseElements(SubSeq(toks, 3, Len(toks)), <<toks[2].s>>)
  ELSE [ok |-> FALSE, val |-> Undefined]

\* JSON.stringify of an array of ids, as tokens.
RECURSIVE StringifyRest(_)
StringifyRest(l) ==
  IF l = <<>> THEN <<Tok("]")>>
  ELSE <<Tok(","), Lit(Head(l))>> \o StringifyRest(Tail(l))

JSONStringify(l) ==
  IF l = <<>> THEN <<Tok("["), Tok("]")>>
  ELSE <<Tok("["), Lit(Head(l))>> \o StringifyRest(Tail(l))

\* The deleteImages field of an update: [status, list].  Status 0: go on
\* with the list (empty when the field is absent or falsy), 400: rejected.
ReadDeleteImages(field) ==
  IF ~Truthy(field) THEN [status |-> 0, list |-> <<>>]
  ELSE IF field.t = "string"
       THEN LET p == JSONParse(field.v)
            IN IF ~p.ok THEN [status |-> 400, list |-> <<>>]
               ELSE IF p.val.t # "array" THEN [status |-> 400, list |-> <<>>]
               ELSE [status |-> 0, list |-> p.val.a]
  ELSE IF field.t # "array" THEN [status |-> 400, list |-> <<>>]
  ELSE [status |-> 0, list |-> field.a]

Includes(list, x) == \E i \in 1..Len(list) : list[i] = x

\* As Filter, but only the first listed image is removed.
FilterRemovesFirstOnly(images, deleteList) ==
  IF \E i \in 1..Len(images) : Includes(deleteList, images[i].public_id)
  THEN LET k == CHOOSE i \in 1..Len(images) :
                  /\ Includes(deleteList, images[i].public_id)
                  /\ \A j \in 1..(i - 1) :
                       ~Includes(deleteList, images[j].public_id)
       IN SubSeq(images, 1, k - 1) \o SubSeq(images, k + 1, Len(images))
  ELSE images

RECURSIVE Filter(_, _)
Filter(images, deleteList) ==
  \* offer.product_images.filter(img => !deleteList.includes(img.public_id))
  IF images = <<>> THEN <<>>
  ELSE IF Includes(deleteList, Head(images).public_id)
       THEN Filter(Tail(images), deleteList)
       ELSE <<Head(images)>> \o Filter(Tail(images), deleteList)

isValidObjectId(id) == id # 0

WithOffer(ofs, id, doc) ==
  [i \in (DOMAIN ofs) \cup {id} |-> IF i = id THEN doc ELSE ofs[i]]

WithoutOffer(ofs, id) == [i \in (DOMAIN ofs) \ {id} |-> ofs[i]]

(***************************************************************************)
(* The result of a handler: the response status, the stores after it, and  *)
(* what the response digest keeps of the request.                          *)
(***************************************************************************)
Result(status, user, id, ofs, nid, store) ==
  [status |-> status, user |-> user, id |-> id,
   offers |-> ofs, nextOfferId |-> nid, imageStore |-> store]

(***************************************************************************)
(* POST /offer/publish, after the gate let user in.                        *)
(***************************************************************************)
\* As publish, without the check that a picture was supplied (the cover is
\* uploads[0] || null).
publishWithoutPictureCheck(user, ofs, nid, store, body, files, faultAt) ==
  LET title == limitString(body.title, TitleMax)
      description == limitString(body.description, DescriptionMax)
      price == toPrice(body.price)
      pictures == normalizePictures(files)
      fresh == OfferSetters([product_name |-> title,
                             product_description |-> description,
                             product_price |-> price,
                             product_image |-> Null,
                             product_images |-> <<>>,
                             owner |-> user])
      up == UploadLoop(pictures, OfferFolder(nid), faultAt, 0, <<>>)
      store1 == store \cup PublicIdsOf(up.docs)
  IN IF title = <<>> \/ ~price.fin
     THEN Result(400, user, 0, ofs, nid, store)
     ELSE IF price.v < 0 \/ price.v > PriceMax * PriceScale
     THEN Result(400, user, 0, ofs, nid, store)
     ELSE IF ~OfferValid(fresh)
     THEN Result(500, user, 0, ofs, nid, store)
     ELSE IF up.status # 200
     THEN Result(up.status, user, nid, WithOffer(ofs, nid, fresh),
                 nid + 1, store1)
     ELSE Result(201, user, nid,
                 WithOffer(ofs, nid,
                           [fresh EXCEPT
                              !.product_image =
                                IF Len(up.docs) > 0 THEN up.docs[1] ELSE Null,
                              !.product_images = up.docs]),
                 nid + 1, store1)

\* As publish, but the record is created once every picture is uploaded.
publishCreatesAfterUploads(user, ofs, nid, store, body, files, faultAt) ==
  LET title == limitString(body.title, TitleMax)
      description == limitString(body.description, DescriptionMax)
      price == toPrice(body.price)
      pictures == normalizePictures(files)
      fresh == OfferSetters([product_name |-> title,
                             product_description |-> description,
                             product_price |-> price,
                             product_image |-> Null,
                             product_images |-> <<>>,
                             owner |-> user])
      up == UploadLoop(pictures, OfferFolder(nid), faultAt, 0, <<>>)
      store1 == store \cup PublicIdsOf(up.docs)
  IN IF title = <<>> \/ ~price.fin
     THEN Result(400, user, 0, ofs, nid, store)
     ELSE IF price.v < 0 \/ price.v > PriceMax * PriceScale
     THEN Result(400, user, 0, ofs, nid, store)
     ELSE IF Len(pictures) = 0
     THEN Result(400, user, 0, ofs, nid, store)
     ELSE IF ~OfferValid(fresh)
     THEN Result(500, user, 0, ofs, nid, store)
     ELSE IF up.status # 200
     THEN Result(up.status, user, nid, ofs, nid, store1)
     ELSE Result(201, user, nid,
                 WithOffer(ofs, nid,
                           [fresh EXCEPT !.product_image = up.docs[1],
                                         !.product_images = up.docs]),
                 nid + 1, store1)

publish(user, ofs, nid, store, body, files, faultAt) ==
  LET title == limitString(body.title, TitleMax)
      description == limitString(body.description, DescriptionMax)
      price == toPrice(body.price)
      pictures == normalizePictures(files)
      fresh == OfferSetters([product_name |-> title,
                             product_description |-> description,
                             product_price |-> price,
                             product_image |-> Null,
                             product_images |-> <<>>,
                             owner |-> user])
      up == UploadLoop(pictures, OfferFolder(nid), faultAt, 0, <<>>)
      store1 == store \cup PublicIdsOf(up.docs)
  IN IF title = <<>> \/ ~price.fin
     THEN Result(400, user, 0, ofs, nid, store)
     ELSE IF price.v < 0 \/ price.v > PriceMax * PriceScale
     THEN Result(400, user, 0, ofs, nid, store)
     ELSE IF Len(pictures) = 0
     THEN Result(400, user, 0, ofs, nid, store)
     ELSE IF ~OfferValid(fresh)
     THEN \* Offer.create throws a ValidationError: nothing is stored
          Result(500, user, 0, ofs, nid, store)
     ELSE IF up.status # 200
     THEN \* the record stays as created; the images uploaded so far stay
          Result(up.status, user, nid, WithOffer(ofs, nid, fresh),
                 nid + 1, store1)
     ELSE Result(201, user, nid,
                 WithOffer(ofs, nid,
                           [fresh EXCEPT !.product_image = up.docs[1],
                                         !.product_images = up.docs]),
                 nid + 1, store1)

(***************************************************************************)
(* PUT /offer/:id.  The steps before the body is read: id, existence,      *)
(* ownership (0: go on).                                                   *)
(***************************************************************************)
OwnerGateLetsAnyUserIn(user, ofs, id) ==
  IF ~isValidObjectId(id) THEN 400
  ELSE IF id \notin DOMAIN ofs THEN 404
  ELSE 0

OwnerGate(user, ofs, id) ==
  IF ~isValidObjectId(id) THEN 400
  ELSE IF id \notin DOMAIN ofs THEN 404
  ELSE IF ofs[id].owner # user THEN 403
  ELSE 0

\* title, description: assigned when present (price is checked apart).
ApplyText(doc, body) ==
  LET d1 == IF body.title.t # "undefined"
            THEN [doc EXCEPT !.product_name = limitString(body.title, TitleMax)]
            ELSE doc
  IN IF body.description.t # "undefined"
     THEN [d1 EXCEPT !.product_description =
                       limitString(body.description, DescriptionMax)]
     ELSE d1

\* The deletion step on the document, for a non-empty list.
DeleteFromDocKeepsCover(doc, deleteList) ==
  [doc EXCEPT !.product_images = Filter(doc.product_images, deleteList)]

DeleteFromDoc(doc, deleteList) ==
  LET rest == Filter(doc.product_images, deleteList)
  IN IF doc.product_image # Null
        /\ Includes(deleteList, doc.product_image.public_id)
     THEN [doc EXCEPT !.product_images = rest,
                      !.product_image = IF Len(rest) > 0 THEN rest[1] ELSE Null]
     ELSE [doc EXCEPT !.product_images = rest]

\* The append step: every uploaded image is pushed; the first becomes the
\* cover when there is none.
RECURSIVE AppendToDoc(_, _)
AppendToDoc(doc, docs) ==
  IF docs = <<>> THEN doc
  ELSE AppendToDoc(
         [doc EXCEPT !.product_images = Append(@, Head(docs)),
                     !.product_image = IF @ = Null THEN Head(docs) ELSE @],
         Tail(docs))

put(user, ofs, nid, store, id, body, files, faultAt) ==
  LET gate == OwnerGate(user, ofs, id)
      price == toPrice(body.price)
      del == ReadDeleteImages(body.deleteImages)
      deleting == Len(del.list) > 0
      d1 == ApplyText(ofs[id], body)
      d2 == IF body.price.t # "undefined"
            THEN [d1 EXCEPT !.product_price = price] ELSE d1
      d3 == IF deleting THEN DeleteFromDoc(d2, del.list) ELSE d2
      store1 == IF deleting THEN store \ {del.list[i] : i \in 1..Len(del.list)}
                ELSE store
      pictures == normalizePictures(files)
      up == UploadLoop(pictures, OfferFolder(id), faultAt,
                       IF deleting THEN 1 ELSE 0, <<>>)
      store2 == store1 \cup PublicIdsOf(up.docs)
      d4 == OfferSetters(AppendToDoc(d3, up.docs))
  IN IF gate # 0 THEN Result(gate, user, id, ofs, nid, store)
     ELSE IF body.price.t # "undefined"
             /\ (~price.fin \/ price.v < 0 \/ price.v > PriceMax * PriceScale)
     THEN Result(400, user, id, ofs, nid, store)
     ELSE IF del.status # 0
     THEN Result(400, user, id, ofs, nid, store)
     ELSE IF deleting /\ faultAt = 1
     THEN \* delete_resources throws
          Result(500, user, id, ofs, nid, store)
     ELSE IF up.status # 200
     THEN Result(up.status, user, id, ofs, nid, store2)
     ELSE IF ~OfferValid(d4)
     THEN \* offer.save() throws a ValidationError
          Result(500, user, id, ofs, nid, store2)
     ELSE Result(200, user, id, WithOffer(ofs, id, d4), nid, store2)

(***************************************************************************)
(* DELETE /offer/:id.                                                      *)
(***************************************************************************)
CollectPublicIds(doc) ==
  (IF doc.product_image # Null THEN <<doc.product_image.public_id>> ELSE <<>>)
  \o [i \in 1..Len(doc.product_images) |-> doc.product_images[i].public_id]

\* As delete, but a fault of the image store ends the request.
deleteSurfacesFault(user, ofs, nid, store, id, faultAt) ==
  LET gate == OwnerGate(user, ofs, id)
      publicIds == CollectPublicIds(ofs[id])
      store1 == IF Len(publicIds) > 0 /\ faultAt # 1
                THEN store \ {publicIds[i] : i \in 1..Len(publicIds)}
                ELSE store
  IN IF gate # 0 THEN Result(gate, user, id, ofs, nid, store)
     ELSE IF Len(publicIds) > 0 /\ faultAt # 0
     THEN Result(500, user, id, ofs, nid, store1)
     ELSE Result(200, user, id, WithoutOffer(ofs, id), nid, store1)

delete(user, ofs, nid, store, id, faultAt) ==
  LET gate == OwnerGate(user, ofs, id)
      publicIds == CollectPublicIds(ofs[id])
      store1 == IF Len(publicIds) > 0 /\ faultAt # 1
                THEN store \ {publicIds[i] : i \in 1..Len(publicIds)}
                ELSE store
  IN IF gate # 0 THEN Result(gate, user, id, ofs, nid, store)
     ELSE Result(200, user, id, WithoutOffer(ofs, id), nid, store1)

(***************************************************************************)
(* GET /offers/:id.                                                        *)
(***************************************************************************)
getById(ofs, id) ==
  IF ~isValidObjectId(id) THEN 400
  ELSE IF id \notin DOMAIN ofs THEN 404
  ELSE 200

(***************************************************************************)
(* Signup and login.  SHA256(..).toString(encBase64) is one-to-one on the  *)
(* strings of the model; uid2(16) draws the salt from Salts, uid2(64) a    *)
(* token no stored or pending user holds.                                  *)
(***************************************************************************)
SHA256(s) == [sha256 |-> s]

Salts == {<<"x">>, <<"y">>}
Tokens ==
  <<<<"t1">>, <<"t2">>, <<"t3">>, <<"t4">>, <<"t5">>, <<"t6">>, <<"t7">>,
    <<"t8">>>>

IsBlank(field) == ~IsString(field) \/ Trim(field.v) = <<>>

NormalizeEmail(email) == ToLowerCase(Trim(email.v))

FindUserByEmail(us, email) ==
  IF \E i \in 1..Len(us) : us[i].email = email
  THEN CHOOSE i \in 1..Len(us) : us[i].email = email
  ELSE 0

Idle == [pc |-> "idle", tempUser |-> Null, req |-> Null]

TokensInUse(us, sg) ==
  {us[i].token : i \in 1..Len(us)}
  \cup {sg[p].tempUser.token : p \in {q \in DOMAIN sg : sg[q].pc # "idle"}}

FreshToken(us, sg) ==
  Tokens[CHOOSE i \in 1..Len(Tokens) :
           /\ Tokens[i] \notin TokensInUse(us, sg)
           /\ \A j \in 1..(i - 1) : Tokens[j] \in TokensInUse(us, sg)]

\* The first part of the signup handler, up to its second await:
\* [status, pc, tempUser].  Status 0: the request goes on at pc.
signupBegin(us, sg, body, files, salt) ==
  LET normalizedEmail == NormalizeEmail(body.email)
      tempUser == [email |-> normalizedEmail,
                   username |-> Trim(body.username.v),
                   token |-> FreshToken(us, sg),
                   hash |-> SHA256(body.password.v \o salt),
                   salt |-> salt,
                   avatar |-> Null]
      stop(st) == [status |-> st, pc |-> "idle", tempUser |-> Null]
  IN IF IsBlank(body.username) THEN stop(400)
     ELSE IF IsBlank(body.email) THEN stop(400)
     ELSE IF ~IsString(body.password) \/ Len(body.password.v) = 0
     THEN stop(400)
     ELSE IF FindUserByEmail(us, normalizedEmail) # 0 THEN stop(409)
     ELSE IF files.t = "undefined"
     THEN \* req.files.avatar on a request without files throws a TypeError
          stop(500)
     ELSE IF files.avatar.t = "undefined"
     THEN [status |-> 0, pc |-> "create", tempUser |-> tempUser]
     ELSE IF files.avatar.f.mimetype \notin ALLOWED_MIME THEN stop(415)
     ELSE [status |-> 0, pc |-> "upload", tempUser |-> tempUser]

\* User.create under the unique index on email: the error code, or 0.
UserCreateError(us, tempUser) ==
  IF FindUserByEmail(us, tempUser.email) # 0 THEN 11000 ELSE 0

\* The catch block of signup.
signupCatch(code) == IF code = 11000 THEN 400 ELSE 500

loginAcceptsAnyPassword(us, body) ==
  LET user == IF IsBlank(body.email) THEN 0
              ELSE FindUserByEmail(us, NormalizeEmail(body.email))
  IN IF IsBlank(body.email) THEN [status |-> 400, user |-> 0]
     ELSE IF ~IsString(body.password) \/ Len(body.password.v) = 0
     THEN [status |-> 400, user |-> 0]
     ELSE IF user = 0 THEN [status |-> 400, user |-> 0]
     ELSE [status |-> 200, user |-> user]

login(us, body) ==
  LET user == IF IsBlank(body.email) THEN 0
              ELSE FindUserByEmail(us, NormalizeEmail(body.email))
  IN IF IsBlank(body.email) THEN [status |-> 400, user |-> 0]
     ELSE IF ~IsString(body.password) \/ Len(body.password.v) = 0
     THEN [status |-> 400, user |-> 0]
     ELSE IF user = 0 THEN [status |-> 400, user |-> 0]
     ELSE IF SHA256(body.password.v \o us[user].salt) # us[user].hash
     THEN [status |-> 400, user |-> 0]
     ELSE [status |-> 200, user |-> user]

(***************************************************************************)
(* The response digest.                                                    *)
(***************************************************************************)
Digest(op, status, user, id, req, out) ==
  [op |-> op, status |-> status, user |-> user, id |-> id,
   req |-> req, out |-> out]

NoRequest == Digest("none", 0, 0, 0, Null, Null)

OfferStores(r) ==
  /\ offers' = r.offers
  /\ nextOfferId' = r.nextOfferId
  /\ imageStore' = r.imageStore

WithinBounds(r) ==
  /\ r.nextOfferId <= MaxOffers + 1
  /\ \A i \in DOMAIN r.offers : Len(r.offers[i].product_images) <= MaxImages

\* The store calls a request can make: a fault past them changes nothing.
PublishCalls(f) == Len(normalizePictures(f))
PutCalls(rq) ==
  (IF Len(ReadDeleteImages(rq.body.deleteImages).list) > 0 THEN 1 ELSE 0)
  + Len(normalizePictures(rq.files))

(***************************************************************************)
(* The requests on the offer routes.  Each action is one request: the      *)
(* gate, then the handler, with the header, the body, the files and the    *)
(* store call that throws drawn from the given sets.                       *)
(***************************************************************************)
PublishRequest(Hs, Bs, Fs, Ks) ==
  \E h \in Hs :
    \E a \in {isAuthenticated(users, h)} :
      IF a.status # 200
      THEN /\ last' = Digest("publish", a.status, 0, 0, [header |-> h], Null)
           /\ UNCHANGED <<users, receipts, offers, nextOfferId, imageStore, signup>>
      ELSE \E b \in Bs, f \in Fs :
           \E k \in {j \in Ks : j <= PublishCalls(f)} :
             \E r \in {publish(a.user, offers, nextOfferId, imageStore, b, f, k)} :
               /\ WithinBounds(r)
               /\ OfferStores(r)
               /\ last' = Digest("publish", r.status, a.user, r.id,
                                 [header |-> h, body |-> b, files |-> f,
                                  fault |-> k], Null)
               /\ UNCHANGED <<users, receipts, signup>>

\* The digest of an update: the request and the document it found.  An
\* error response's digest keeps the header and the text fields, whether
\* the request listed images to delete, and the number of its pictures.
PutDigest(h, rq, status, doc) ==
  IF status = 200
  THEN [header |-> h, body |-> rq.body, files |-> rq.files, before |-> doc]
  ELSE [header |-> h,
        body |-> [title |-> rq.body.title,
                  description |-> rq.body.description,
                  price |-> rq.body.price],
        deleting |-> Len(ReadDeleteImages(rq.body.deleteImages).list) > 0,
        pictures |-> Len(normalizePictures(rq.files))]

PutRequest(Hs, Is, Rs, Ks) ==
  \E h \in Hs :
    \E a \in {isAuthenticated(users, h)} :
      IF a.status # 200
      THEN /\ last' = Digest("put", a.status, 0, 0, [header |-> h], Null)
           /\ UNCHANGED <<users, receipts, offers, nextOfferId, imageStore, signup>>
      ELSE \E id \in Is :
             \E gate \in {OwnerGate(a.user, offers, id)} :
               IF gate # 0
               THEN /\ last' = Digest("put", gate, a.user, id,
                                      [header |-> h], Null)
                    /\ UNCHANGED <<users, receipts, offers, nextOfferId,
                                   imageStore, signup>>
               ELSE \E rq \in Rs :
                    \E k \in {j \in Ks : j <= PutCalls(rq)} :
                      \E r \in {put(a.user, offers, nextOfferId, imageStore,
                                    id, rq.body, rq.files, k)} :
                        /\ WithinBounds(r)
                        /\ OfferStores(r)
                        /\ last' = Digest("put", r.status, a.user, id,
                                          PutDigest(h, rq, r.status, offers[id]),
                                          Null)
                        /\ UNCHANGED <<users, receipts, signup>>

DeleteRequest(Hs, Is, Ks) ==
  \E h \in Hs :
    \E a \in {isAuthenticated(users, h)} :
      IF a.status # 200
      THEN /\ last' = Digest("delete", a.status, 0, 0, [header |-> h], Null)
           /\ UNCHANGED <<users, receipts, offers, nextOfferId, imageStore, signup>>
      ELSE \E id \in Is, k \in Ks :
             \E r \in {delete(a.user, offers, nextOfferId, imageStore, id, k)} :
               /\ OfferStores(r)
               /\ last' = Digest("delete", r.status, a.user, id,
                                 [header |-> h, fault |-> k], Null)
               /\ UNCHANGED <<users, receipts, signup>>

GetByIdRequest(Is) ==
  \E id \in Is :
    /\ last' = Digest("get", getById(offers, id), 0, id, Null,
                      IF getById(offers, id) = 200 THEN offers[id] ELSE Null)
    /\ UNCHANGED <<users, receipts, offers, nextOfferId, imageStore, signup>>

(***************************************************************************)
(* The inputs of the offer routes.                                         *)
(***************************************************************************)
SeqsUpTo(S, n) == UNION {[1..m -> S] : m \in 0..n}

F1 == [name |-> "a", mimetype |-> "image/png", data |-> 1]
F2 == [name |-> "b", mimetype |-> "image/png", data |-> 2]
F3 == [name |-> "a", mimetype |-> "image/jpeg", data |-> 3]
F4 == [name |-> "c", mimetype |-> "text/plain", data |-> 4]

Files == {F1, F2, F3, F4}

FileInputs ==
  {Undefined} \cup {Arr(l) : l \in SeqsUpTo(Files, MaxPics) \ {<<>>}}

\* The store call of a request that throws: none, the first, the second.
Faults == {0, 1, 2}

\* The ids a request names: 0 is an id that is no ObjectId.
OfferIds == 1..MaxOffers
AnyIds == 0..MaxOffers

AvatarId == PublicId(UsersFolder, "a")

PublicIds ==
  {PublicId(OfferFolder(i), n) : i \in 1..MaxOffers, n \in {"a", "b"}}
  \cup {AvatarId}

\* Lists of distinct ids, and one that names an id twice.
DeleteLists ==
  {l \in SeqsUpTo(PublicIds, MaxPics) :
     \A i, j \in 1..Len(l) : i # j => l[i] # l[j]}
  \cup {<<PublicId(OfferFolder(1), "a"), PublicId(OfferFolder(1), "a")>>}

\* deleteImages values the handler rejects or skips, and lists, given as
\* arrays or as the JSON text of an array.
OddDeleteInputs ==
  {Str(<<>>), Num(1), Str(<<Tok("junk")>>), Str(<<Lit(AvatarId)>>),
   Str(<<Tok("["), Lit(AvatarId)>>)}

ListDeleteInputs ==
  {Arr(l) : l \in DeleteLists}
  \cup {Str(JSONStringify(l)) : l \in SeqsUpTo(PublicIds, 1)}

Bearer(token) == Str(<<"Bearer", " ">> \o token)

PlainPublish ==
  [title |-> Str(<<"a">>), description |-> Str(<<"d">>),
   price |-> Str(<<"5">>)]

PlainPut(del) ==
  [title |-> Undefined, description |-> Undefined, price |-> Undefined,
   deleteImages |-> del]

(***************************************************************************)
(* The offer routes start from two signed-up users, the first with an      *)
(* avatar in the image store.                                              *)
(***************************************************************************)
User(email, token, password, salt, avatar) ==
  [email |-> email, username |-> <<"u">>, token |-> token,
   hash |-> SHA256(password \o salt), salt |-> salt, avatar |-> avatar]

Receipt(id, user, password) ==
  [email |-> user.email, password |-> password, id |-> id,
   token |-> user.token, hash |-> user.hash, salt |-> user.salt]

Alice ==
  User(<<"a">>, Tokens[1], <<"p">>, <<"x">>,
       CloudinaryUpload(convertToBase64(F1), F1.name, UsersFolder))
Bob == User(<<"b">>, Tokens[2], <<"q">>, <<"y">>, Null)

InitOffers ==
  /\ users = <<Alice, Bob>>
  /\ receipts = <<Receipt(1, Alice, <<"p">>), Receipt(2, Bob, <<"q">>)>>
  /\ offers = <<>>
  /\ nextOfferId = 1
  /\ imageStore = {AvatarId}
  /\ signup = [p \in {} |-> Idle]
  /\ last = NoRequest

SignedIn == {Bearer(Tokens[1]), Bearer(Tokens[2])}

Publish == PublishRequest(SignedIn, {PlainPublish}, FileInputs, Faults)

\* New images without deleteImages, every list of deleteImages with a few
\* file lists, and the other deleteImages values without files.
NewFileInputs ==
  {Undefined, Arr(<<F4>>), Arr(<<F2, F4>>)}
  \cup {Arr(l) : l \in SeqsUpTo({F2, F3}, MaxPics) \ {<<>>}}

FewFileInputs == {Undefined, Arr(<<F2>>), Arr(<<F3, F4>>)}

PutInputs ==
  {[body |-> PlainPut(Undefined), files |-> f] : f \in NewFileInputs}
  \cup {[body |-> PlainPut(d), files |-> f] :
          d \in ListDeleteInputs, f \in FewFileInputs}
  \cup {[body |-> PlainPut(d), files |-> Undefined] : d \in OddDeleteInputs}

Update == PutRequest(SignedIn, OfferIds, PutInputs, Faults)

Delete == DeleteRequest(SignedIn, OfferIds, Faults)

Next == Publish \/ Update \/ Delete

Spec == InitOffers /\ [][Next]_vars

(***************************************************************************)
(* Properties of the offer routes.                                         *)
(***************************************************************************)
ListOf(field) == ReadDeleteImages(field).list

IsElementOf(x, seq) == \E i \in 1..Len(seq) : seq[i] = x

\* C1: the cover of every stored offer, when present, is an element of the
\* offer's images list.
C1_CoverIsAnImage ==
  \A id \in DOMAIN offers :
    offers[id].product_image # Null
      => IsElementOf(offers[id].product_image, offers[id].product_images)

\* An update has deleted the cover, and the offer has a cover again.
C1_Witness ==
  /\ last.op = "put" /\ last.status = 200
  /\ last.req.before.product_image # Null
  /\ Includes(ListOf(last.req.body.deleteImages),
              last.req.before.product_image.public_id)
  /\ offers[last.id].product_image # Null
  /\ normalizePictures(last.req.files) = <<>>

\* C2: the public ids of the images of a stored offer are pairwise distinct.
C2_PublicIdsDistinct ==
  \A id \in DOMAIN offers :
    \A i, j \in 1..Len(offers[id].product_images) :
      i # j => offers[id].product_images[i].public_id
                 # offers[id].product_images[j].public_id

\* C3: a PUT or DELETE by a signed-in user who does not own the offer is
\* answered 403 and changes neither the offers nor the image store.
C3_NonOwnerForbidden ==
  [][(/\ last'.op \in {"put", "delete"}
      /\ last'.user # 0
      /\ last'.id \in DOMAIN offers
      /\ offers[last'.id].owner # last'.user)
     => (/\ last'.status = 403
         /\ offers' = offers
         /\ imageStore' = imageStore)]_vars

\* A user who does not own an offer with images was refused its deletion.
C3_Witness ==
  /\ last.op = "delete" /\ last.status = 403
  /\ last.id \in DOMAIN offers
  /\ offers[last.id].owner # last.user
  /\ Len(offers[last.id].product_images) > 0

\* The reference the image store returns for file f in the folder of offer id.
RefOf(f, id) ==
  [public_id |-> [folder |-> [ns |-> "offers", of |-> id], name |-> f.name],
   format |-> FormatOf(f.mimetype),
   bytes |-> f.data]

\* C9: a publish without pictures is answered 400 and stores nothing; a
\* publish answered 201 stores the references of its pictures in input
\* order, the first as the cover.
C9_PublishImages ==
  [][(last'.op = "publish" /\ last'.user # 0)
     => LET fs == normalizePictures(last'.req.files)
        IN /\ fs = <<>>
                => (/\ last'.status = 400
                    /\ offers' = offers
                    /\ nextOfferId' = nextOfferId)
           /\ last'.status = 201
                => (/\ Len(fs) >= 1
                    /\ last'.id \notin DOMAIN offers
                    /\ offers'[last'.id].product_images
                         = [i \in 1..Len(fs) |-> RefOf(fs[i], last'.id)]
                    /\ offers'[last'.id].product_image
                         = RefOf(fs[1], last'.id))]_vars

\* A publish stored two different pictures.
C9_Witness ==
  /\ last.op = "publish" /\ last.status = 201
  /\ Len(offers[last.id].product_images) = 2
  /\ offers[last.id].product_images[1] # offers[last.id].product_images[2]
  /\ offers[last.id].product_image = offers[last.id].product_images[1]

\* C10: after an update whose deleteImages names the cover, the images are
\* the former ones without the listed ones, in their order, then the new
\* uploads; the cover is the first that remains, else the first upload,
\* else absent.
C10_CoverReassigned ==
  (/\ last.op = "put" /\ last.status = 200
   /\ last.req.before.product_image # Null
   /\ Includes(ListOf(last.req.body.deleteImages),
               last.req.before.product_image.public_id))
  => LET list == ListOf(last.req.body.deleteImages)
         Remains(img) == ~Includes(list, img.public_id)
         kept == SelectSeq(last.req.before.product_images, Remains)
         n == Len(normalizePictures(last.req.files))
         now == offers[last.id]
     IN /\ Len(now.product_images) = Len(kept) + n
        /\ SubSeq(now.product_images, 1, Len(kept)) = kept
        /\ now.product_image =
             IF kept # <<>> THEN kept[1]
             ELSE IF n > 0 THEN now.product_images[1]
             ELSE Null

\* An update deleted the cover and left two different images, in order.
C10_Witness ==
  /\ last.op = "put" /\ last.status = 200
  /\ last.req.before.product_image # Null
  /\ Includes(ListOf(last.req.body.deleteImages),
              last.req.before.product_image.public_id)
  /\ Len(offers[last.id].product_images) = 2
  /\ offers[last.id].product_images[1] # offers[last.id].product_images[2]
  /\ Len(last.req.before.product_images) = 3
  /\ offers[last.id].product_image = last.req.before.product_images[2]

(***************************************************************************)
(* The offer routes under every form of Authorization header.              *)
(***************************************************************************)
T1 == Tokens[1]

Headers ==
  {Undefined, Str(<<>>), Str(<<"Bearer">>), Str(<<"Bearer", " ">>),
   Bearer(Tokens[1]), Bearer(Tokens[2]), Bearer(Tokens[3]),
   Str(<<"Basic", " ">> \o T1), Str(<<"bearer", " ">> \o T1),
   Str(<<"Bearer", " ", " ">> \o T1), Str(<<"Bearer">> \o T1),
   Str(<<"Bearer", " ">> \o T1 \o <<" ", "x">>)}

PublishAnyHeader ==
  PublishRequest(Headers, {PlainPublish}, {Undefined, Arr(<<F1>>)}, {0})

UpdateAnyHeader ==
  PutRequest(Headers, AnyIds,
             {[body |-> PlainPut(Undefined), files |-> Arr(<<F2>>)],
              [body |-> PlainPut(Arr(<<PublicId(OfferFolder(1), "a")>>)),
               files |-> Undefined]},
             {0})

DeleteAnyHeader == DeleteRequest(Headers, AnyIds, {0, 1})

GetById == GetByIdRequest(AnyIds)

NextHeaders ==
  PublishAnyHeader \/ UpdateAnyHeader \/ DeleteAnyHeader \/ GetById

SpecHeaders == InitOffers /\ [][NextHeaders]_vars

(***************************************************************************)
(* The offer routes under every form of title, description and price, by   *)
(* one signed-in user.  One field of a request is varied at a time.        *)
(***************************************************************************)
TitleInputs ==
  {Undefined, Num(5), Str(<<>>), Str(<<" ">>), Str(<<" ", "a", " ">>),
   Str(Rep("a", TitleMax)), Str(Rep("a", TitleMax + 1)),
   Str(<<" ">> \o Rep("a", TitleMax))}

PriceInputs ==
  {Undefined, Num(5 * PriceScale), Num(0 - 1), Str(<<>>), Str(<<"k">>),
   Str(<<"-", "1">>), Str(<<"0">>), Str(<<"1", ".", "5">>),
   Str(<<"1", "0", "0", "0", "0", "0">>),
   Str(<<"1", "0", "0", "0", "0", "0", ".", "0", "1">>)}

DescriptionInputs ==
  {Undefined, Str(<<>>), Str(Rep("d", DescriptionMax + 1))}

PublishInputs ==
  {[PlainPublish EXCEPT !.title = t] : t \in TitleInputs}
  \cup {[PlainPublish EXCEPT !.price = x] : x \in PriceInputs}
  \cup {[PlainPublish EXCEPT !.description = d] : d \in DescriptionInputs}

PublishAnyInput ==
  PublishRequest({Bearer(T1)}, PublishInputs, {Undefined, Arr(<<F1>>)}, {0})

\* Updates of one text field without images, and updates whose title or
\* price is refused together with a deleteImages list and a new image.
UpdateInputs ==
  {[body |-> [PlainPut(Undefined) EXCEPT !.title = t], files |-> Undefined] :
     t \in TitleInputs}
  \cup {[body |-> [PlainPut(Undefined) EXCEPT !.price = x],
         files |-> Undefined] : x \in PriceInputs}
  \cup {[body |-> [PlainPut(Undefined) EXCEPT !.description = d],
         files |-> Undefined] : d \in DescriptionInputs}
  \cup {[body |-> [PlainPut(Arr(<<PublicId(OfferFolder(1), "a")>>))
                     EXCEPT !.title = t, !.price = x],
         files |-> f] :
          t \in {Undefined, Str(<<>>), Str(<<" ">>)},
          x \in {Undefined, Str(<<"k">>)},
          f \in {Undefined, Arr(<<F2>>)}}

UpdateAnyInput == PutRequest({Bearer(T1)}, AnyIds, UpdateInputs, {0})

DeleteOwn == DeleteRequest({Bearer(T1)}, OfferIds, {0})

NextInputs == PublishAnyInput \/ UpdateAnyInput \/ DeleteOwn

SpecInputs == InitOffers /\ [][NextInputs]_vars

(***************************************************************************)
(* Properties of the gate and of the validation of the text fields.        *)
(***************************************************************************)
\* The user a header presents the token of: 0 when the header is missing,
\* its scheme is not "Bearer", its token is empty or no user holds it.
PresentedUser(us, header) ==
  IF header.t = "undefined" THEN 0
  ELSE LET parts == Split(header.v, <<>>)
       IN IF parts[1] # <<"Bearer">> \/ Len(parts) < 2 THEN 0
          ELSE IF parts[2] = <<>> THEN 0
          ELSE FindUserByToken(us, parts[2])

\* C4: a request to publish, PUT or DELETE whose header is missing, has
\* another scheme than "Bearer", an empty token or a token of no user is
\* answered 401 and changes nothing; otherwise the handler runs with the
\* user who holds the presented token.
C4_BadHeaderUnauthorized ==
  [][last'.op \in {"publish", "put", "delete"}
     => LET u == PresentedUser(users, last'.req.header)
        IN IF u = 0
           THEN /\ last'.status = 401
                /\ last'.user = 0
                /\ UNCHANGED <<users, offers, nextOfferId, imageStore>>
           ELSE last'.user = u]_vars

\* The title and price the description of Create accepts.
TitleGiven(title) == IsString(title) /\ Trim(title.v) # <<>>

PriceInRange(n) == n.fin /\ n.v >= 0 /\ n.v <= PriceMax * PriceScale

PriceGiven(price) ==
  CASE price.t = "number" -> PriceInRange(Fin(price.n))
    [] price.t = "string" ->
         Trim(price.v) # <<>> /\ PriceInRange(StringToNumber(price.v))
    [] OTHER -> FALSE

\* C7: a publish whose title is missing, empty or blank, or whose price is
\* missing, empty, no number or out of [0, 100000], is answered 400 and
\* stores no offer; a stored title of more than 50 characters is cut to its
\* first 50.
C7_CreateValidates ==
  [][(last'.op = "publish" /\ last'.user # 0)
     => LET b == last'.req.body
        IN IF TitleGiven(b.title) /\ PriceGiven(b.price)
           THEN (last'.status = 201 /\ Len(b.title.v) > TitleMax)
                  => offers'[last'.id].product_name
                       = SubSeq(b.title.v, 1, TitleMax)
           ELSE /\ last'.status = 400
                /\ offers' = offers
                /\ nextOfferId' = nextOfferId]_vars

\* C8: an update by the owner with a title that is empty after trimming, or
\* a price that is no finite number or out of [0, 100000], is answered 400
\* and changes neither the offer nor the image store.
C8_UpdateValidates ==
  [][(/\ last'.op = "put"
      /\ last'.id \in DOMAIN offers
      /\ offers[last'.id].owner = last'.user
      /\ LET b == last'.req.body
         IN \/ IsString(b.title) /\ Trim(b.title.v) = <<>>
            \/ b.price.t # "undefined" /\ ~PriceInRange(toPrice(b.price)))
     => (/\ last'.status = 400
         /\ offers' = offers
         /\ imageStore' = imageStore)]_vars

(***************************************************************************)
(* Signup and login requests.  A signup runs in three steps, one per       *)
(* await of the handler: the existence check (with the validation before   *)
(* it and the code up to the next await), the avatar upload, the insert.   *)
(* Signups in flight interleave at these steps.  A login is one step: it   *)
(* has one await.                                                          *)
(***************************************************************************)
NoAvatar == [t |-> "files", avatar |-> Undefined]
Avatar(f) == [t |-> "files", avatar |-> OneFile(f)]

InFlight == {p \in DOMAIN signup : signup[p].pc # "idle"}

\* A new request takes the first free slot.
SignupStart(p, Rs) ==
  /\ signup[p].pc = "idle"
  /\ \A q \in 1..(p - 1) : signup[q].pc # "idle"
  /\ \E rq \in Rs, salt \in Salts :
       \E r \in {signupBegin(users, signup, rq.body, rq.files, salt)} :
         IF r.pc = "idle"
         THEN /\ last' = Digest("signup", r.status, 0, 0,
                                [body |-> rq.body, files |-> rq.files,
                                 fault |-> FALSE], Null)
              /\ UNCHANGED <<users, receipts, offers, nextOfferId,
                             imageStore, signup>>
         ELSE /\ Len(users) + Cardinality(InFlight) < MaxUsers
              /\ signup' = [signup EXCEPT
                              ![p] = [pc |-> r.pc, tempUser |-> r.tempUser,
                                      req |-> rq]]
              /\ UNCHANGED <<users, receipts, offers, nextOfferId,
                             imageStore, last>>

\* cloudinary.uploader.upload of the avatar resolves, or throws (fault).
SignupUpload(p) ==
  /\ signup[p].pc = "upload"
  /\ \E fault \in BOOLEAN :
       LET file == signup[p].req.files.avatar.f
           doc == CloudinaryUpload(convertToBase64(file), file.name,
                                   UsersFolder)
       IN IF fault
          THEN /\ last' = Digest("signup", 500, 0, 0,
                                 [body |-> signup[p].req.body,
                                  files |-> signup[p].req.files,
                                  fault |-> TRUE], Null)
               /\ signup' = [signup EXCEPT ![p] = Idle]
               /\ UNCHANGED <<users, receipts, offers, nextOfferId,
                              imageStore>>
          ELSE /\ imageStore' = imageStore \cup {doc.public_id}
               /\ signup' = [signup EXCEPT ![p].pc = "create",
                                           ![p].tempUser.avatar = doc]
               /\ UNCHANGED <<users, receipts, offers, nextOfferId, last>>

\* User.create resolves with the new record, or throws the duplicate-key
\* error of the unique index.
SignupCreate(p) ==
  /\ signup[p].pc = "create"
  /\ LET tempUser == signup[p].tempUser
         req == [body |-> signup[p].req.body, files |-> signup[p].req.files,
                 fault |-> FALSE]
         code == UserCreateError(users, tempUser)
         id == Len(users) + 1
     IN IF code # 0
        THEN /\ last' = Digest("signup", signupCatch(code), 0, 0, req, Null)
             /\ UNCHANGED <<users, receipts>>
        ELSE /\ users' = Append(users, tempUser)
             /\ receipts' = Append(receipts,
                                   Receipt(id, tempUser, req.body.password.v))
             /\ last' = Digest("signup", 201, id, id, req,
                               [id |-> id, token |-> tempUser.token])
  /\ signup' = [signup EXCEPT ![p] = Idle]
  /\ UNCHANGED <<offers, nextOfferId, imageStore>>

LoginRequest(Bs) ==
  \E b \in Bs :
    \E r \in {login(users, b)} :
      /\ last' = Digest("login", r.status, r.user, r.user, [body |-> b],
                        IF r.status = 200
                        THEN [id |-> r.user, token |-> users[r.user].token]
                        ELSE Null)
      /\ UNCHANGED <<users, receipts, offers, nextOfferId, imageStore,
                     signup>>

(***************************************************************************)
(* The inputs of signup and login, and their specification: no user at     *)
(* the start.                                                              *)
(***************************************************************************)
PlainSignup ==
  [username |-> Str(<<"u">>), email |-> Str(<<"a">>),
   password |-> Str(<<"p">>)]

\* Signups of two emails that are equal after trimming and lower-casing
\* and of a third one, with two passwords; a signup with an avatar; and
\* signups with one field, or the files, the handler refuses.
SignupInputs ==
  {[body |-> [PlainSignup EXCEPT !.email = e, !.password = w],
    files |-> NoAvatar] :
     e \in {Str(<<"a">>), Str(<<" ", "A", " ">>), Str(<<"b">>)},
     w \in {Str(<<"p">>), Str(<<"q">>)}}
  \cup {[body |-> PlainSignup, files |-> f] :
          f \in {Undefined, Avatar(F1), Avatar(F4)}}
  \cup {[body |-> [PlainSignup EXCEPT !.username = x], files |-> NoAvatar] :
          x \in {Undefined, Str(<<" ">>)}}
  \cup {[body |-> [PlainSignup EXCEPT !.email = x], files |-> NoAvatar] :
          x \in {Undefined, Str(<<" ">>)}}
  \cup {[body |-> [PlainSignup EXCEPT !.password = x], files |-> NoAvatar] :
          x \in {Undefined, Str(<<>>)}}

LoginBodies ==
  {[email |-> e, password |-> w] :
     e \in {Str(<<"a">>), Str(<<" ", "A", " ">>), Str(<<"b">>)},
     w \in {Str(<<"p">>), Str(<<"q">>)}}
  \cup {[email |-> e, password |-> Str(<<"p">>)] :
          e \in {Undefined, Str(<<" ">>)}}
  \cup {[email |-> Str(<<"a">>), password |-> w] :
          w \in {Undefined, Str(<<>>)}}

InitUsers ==
  /\ users = <<>>
  /\ receipts = <<>>
  /\ offers = <<>>
  /\ nextOfferId = 1
  /\ imageStore = {}
  /\ signup = [p \in 1..MaxSignups |-> Idle]
  /\ last = NoRequest

Signup == \E p \in 1..MaxSignups : SignupStart(p, SignupInputs)

Upload == \E p \in 1..MaxSignups : SignupUpload(p)

Create == \E p \in 1..MaxSignups : SignupCreate(p)

Login == LoginRequest(LoginBodies)

NextUsers == Signup \/ Upload \/ Create \/ Login

SpecUsers == InitUsers /\ [][NextUsers]_vars

(***************************************************************************)
(* Properties of signup and login.                                         *)
(***************************************************************************)
\* A signup request the handler has no reason of its own to refuse: its
\* fields are given, its avatar (if any) is an allowed image, and the image
\* store did not fail.
SignupInOrder(req) ==
  /\ ~IsBlank(req.body.username)
  /\ ~IsBlank(req.body.email)
  /\ IsString(req.body.password) /\ Len(req.body.password.v) > 0
  /\ req.files.t # "undefined"
  /\ req.files.avatar.t # "undefined"
       => req.files.avatar.f.mimetype \in ALLOWED_MIME
  /\ ~req.fault

\* C5: no two user records hold the same email, and a signup in order that
\* creates no record (its email is taken, at the existence check or at the
\* insert) is answered 409.
C5_LoserGetsConflict ==
  /\ \A i, j \in 1..Len(users) : users[i].email = users[j].email => i = j
  /\ (last.op = "signup" /\ SignupInOrder(last.req) /\ last.status # 201)
       => last.status = 409

\* C6: the stored token, hash and salt of every signed-up user stay those
\* of the signup; a login with the email of a signup (up to blanks and
\* case) and a non-empty password is answered 200 with the id and token of
\* that signup when the password is the signup's, and 400 otherwise.
C6_LoginMatchesSignup ==
  /\ \A i \in 1..Len(receipts) :
       LET r == receipts[i]
       IN /\ r.id \in 1..Len(users)
          /\ users[r.id].token = r.token
          /\ users[r.id].hash = r.hash
          /\ users[r.id].salt = r.salt
  /\ (/\ last.op = "login"
      /\ IsString(last.req.body.email)
      /\ IsString(last.req.body.password)
      /\ Len(last.req.body.password.v) > 0)
       => \A i \in 1..Len(receipts) :
            LET r == receipts[i]
            IN r.email = NormalizeEmail(last.req.body.email)
                 => IF last.req.body.password.v = r.password
                    THEN /\ last.status = 200
                         /\ last.out.id = r.id
                         /\ last.out.token = r.token
                    ELSE last.status = 400

\* A login typed with blanks and a capital succeeded while another user,
\* with another password, is signed up.
C6_Witness ==
  /\ last.op = "login" /\ last.status = 200
  /\ last.req.body.email = Str(<<" ", "A", " ">>)
  /\ Len(receipts) = 2
  /\ \E i \in 1..2 : receipts[i].password # last.req.body.password.v
  /\ last.out.token = receipts[last.out.id].token

(***************************************************************************)
(* Properties of the order of effects: the record and the image store.     *)
(***************************************************************************)
\* The first picture of a list whose media type is not allowed, or 0.
FirstDisallowed(fs) ==
  IF \E i \in 1..Len(fs) : fs[i].mimetype \notin ALLOWED_MIME
  THEN CHOOSE i \in 1..Len(fs) :
         /\ fs[i].mimetype \notin ALLOWED_MIME
         /\ \A j \in 1..(i - 1) : fs[j].mimetype \in ALLOWED_MIME
  ELSE 0

\* C11: a publish with valid text fields whose k-th picture is the first
\* of a disallowed media type (no store call failing before it) is answered
\* 415, and only then; the record of the new offer then exists with no
\* images and no cover, and the image store has gained exactly pictures
\* 1..k-1.
C11_CreateThenUpload ==
  [][(last'.op = "publish" /\ last'.user # 0)
     => LET fs == normalizePictures(last'.req.files)
            k == FirstDisallowed(fs)
            f == last'.req.fault
            id == last'.id
        IN /\ last'.req.body = PlainPublish
             => (last'.status = 415 <=> (k > 0 /\ (f = 0 \/ f >= k)))
           /\ last'.status = 415
                => (/\ k > 0
                    /\ id \notin DOMAIN offers
                    /\ id \in DOMAIN offers'
                    /\ offers'[id].product_images = <<>>
                    /\ offers'[id].product_image = Null
                    /\ offers'[id].owner = last'.user
                    /\ imageStore' =
                         imageStore
                         \cup {PublicId(OfferFolder(id), fs[i].name) :
                                 i \in 1..(k - 1)})]_vars

\* A publish was answered 415 at its second picture: the record is there
\* without images, the first picture is in the image store.
C11_Witness ==
  /\ last.op = "publish" /\ last.status = 415
  /\ Len(normalizePictures(last.req.files)) = 2
  /\ FirstDisallowed(normalizePictures(last.req.files)) = 2
  /\ last.id \in DOMAIN offers
  /\ offers[last.id].product_images = <<>>
  /\ PublicId(OfferFolder(last.id), normalizePictures(last.req.files)[1].name)
       \in imageStore

\* C12: a DELETE by the owner of an existing offer is answered 200 and
\* removes the record, whether or not a call to the image store fails;
\* GET /offers/:id of that id is then answered 404.
C12_DeleteAlwaysRemoves ==
  [][(/\ last'.op = "delete"
      /\ last'.id \in DOMAIN offers
      /\ offers[last'.id].owner = last'.user)
     => (/\ last'.status = 200
         /\ last'.id \notin DOMAIN offers'
         /\ getById(offers', last'.id) = 404
         /\ \A i \in DOMAIN offers \ {last'.id} :
              i \in DOMAIN offers' /\ offers'[i] = offers[i])]_vars

\* The owner deleted an offer while the bulk delete of the image store
\* failed: the record is gone, its image is still in the image store.
C12_Witness ==
  /\ last.op = "delete" /\ last.status = 200
  /\ last.req.fault = 1
  /\ last.id \notin DOMAIN offers
  /\ \E n \in {"a", "b"} : PublicId(OfferFolder(last.id), n) \in imageStore

\* The public ids an offer's record refers to.
ReferencedBy(doc) ==
  {CollectPublicIds(doc)[i] : i \in 1..Len(CollectPublicIds(doc))}

\* C13: every image a PUT on an offer removes from the image store was
\* referenced by that offer (never one of another offer or an avatar).
C13_UpdateRemovesOwnImagesOnly ==
  [][last'.op = "put"
     => \A x \in imageStore \ imageStore' :
          /\ last'.id \in DOMAIN offers
          /\ x \in ReferencedBy(offers[last'.id])]_vars

\* C14: a PUT by the owner that is answered with an error leaves the record
\* as it was, and every image the record refers to, if it was in the image
\* store before the request, is still there after it.
C14_FailedUpdateChangesNothing ==
  [][(/\ last'.op = "put"
      /\ last'.id \in DOMAIN offers
      /\ offers[last'.id].owner = last'.user
      /\ last'.status # 200)
     => (/\ offers' = offers
         /\ \A x \in ReferencedBy(offers[last'.id]) :
              x \in imageStore => x \in imageStore')]_vars

====
